---- MODULE Spec2Model ----
(***************************************************************************)
(* Duty-indexed navigation of timeboard workshifts                         *)
(* (timeboard/workshift.py: Workshift.__init__, rollforward, rollback).    *)
(*                                                                         *)
(* A schedule classifies the positions 0..N-1 of a timeline as on-duty or  *)
(* off-duty and exposes three ascending arrays: on_duty_index,             *)
(* off_duty_index and index (all positions).  A Workshift is a position    *)
(* bound to the schedule; rollforward/rollback return another Workshift    *)
(* or the value of the timeboard's _handle_out_of_bounds hook.             *)
(***************************************************************************)
EXTENDS Integers, Sequences, FiniteSets

VARIABLES
    index,           \* schedule.index          : all positions, ascending
    on_duty_index,   \* schedule.on_duty_index  : on-duty positions, ascending
    off_duty_index,  \* schedule.off_duty_index : off-duty positions, ascending
    ws,              \* the Workshift the caller holds (self), or none yet
    call             \* the last call made, its locals and its outcome

vars == <<index, on_duty_index, off_duty_index, ws, call>>

\* Largest timeline length whose duty partitions are all enumerated.
MaxN == 4
\* Largest magnitude of the `steps` argument.
MaxSteps == 5

Duties == {"on", "off", "same", "alt", "any"}
StepsRange == (0 - MaxSteps) .. MaxSteps

----------------------------------------------------------------------------
(* Arrays: 0-based numpy arrays are held as 1-based sequences.             *)

RECURSIVE Ascending(_, _)
\* The ascending array of the members of S among the positions 0..n-1.
Ascending(S, n) ==
    IF n = 0 THEN <<>>
    ELSE IF (n - 1) \in S THEN Append(Ascending(S, n - 1), n - 1)
         ELSE Ascending(S, n - 1)

Members(a) == {a[j] : j \in 1 .. Len(a)}

\* The schedules of the spec's examples (N = 10).
ExampleRange == 0 .. 9
ExampleAlternating == {0, 2, 4, 6, 8}
ExampleLastOff == 0 .. 8

\* [n, on]: a timeline length and the set of its on-duty positions.
Schedules ==
    {[n |-> n, on |-> S] : n \in 0 .. MaxN, S \in SUBSET (0 .. MaxN - 1)}

ValidSchedules ==
    {s \in Schedules : s.on \subseteq 0 .. s.n - 1}
    \cup {[n |-> Cardinality(ExampleRange), on |-> ExampleAlternating],
          [n |-> Cardinality(ExampleRange), on |-> ExampleLastOff]}

----------------------------------------------------------------------------
(* Collaborators of Workshift: the schedule and the timeboard.             *)

N == Len(index)

\* schedule.label(location) raises IndexError for a location outside [0, N).
label_raises_IndexError(location) == location < 0 \/ location >= N

is_on_duty(location) == location \in Members(on_duty_index)

is_off_duty(location) == location \in Members(off_duty_index)

\* timeboard._handle_out_of_bounds(msg): the container's hook; its value is
\* what the navigation call returns.
handle_out_of_bounds == [kind |-> "OutOfBounds"]

----------------------------------------------------------------------------
(* Workshift.__init__                                                      *)

\* Variant: the IndexError of schedule.label is swallowed.
Workshift_init_accepting(location) == [kind |-> "Workshift", loc |-> location]

\* The value of Workshift(tb, location, schedule) for an integer location:
\* the new Workshift, or the OutOfBoundsError raised in place of IndexError.
Workshift_init(location) ==
    IF label_raises_IndexError(location)
    THEN [kind |-> "OutOfBoundsError"]
    ELSE [kind |-> "Workshift", loc |-> location]

----------------------------------------------------------------------------
(* numpy: searchsorted(a, v) and a[j]                                      *)

RECURSIVE bisect_left(_, _, _, _)
bisect_left(a, v, lo, hi) ==
    IF lo >= hi THEN lo
    ELSE LET mid == lo + ((hi - lo) \div 2)
         IN IF a[mid + 1] < v THEN bisect_left(a, v, mid + 1, hi)
            ELSE bisect_left(a, v, lo, mid)

RECURSIVE bisect_right(_, _, _, _)
bisect_right(a, v, lo, hi) ==
    IF lo >= hi THEN lo
    ELSE LET mid == lo + ((hi - lo) \div 2)
         IN IF a[mid + 1] <= v THEN bisect_right(a, v, mid + 1, hi)
            ELSE bisect_right(a, v, lo, mid)

\* Variant: searchsorted(a, v, side='right').
searchsorted_right(a, v) == bisect_right(a, v, 0, Len(a))

\* searchsorted(a, v), side='left': binary search for the insertion point.
searchsorted(a, v) == bisect_left(a, v, 0, Len(a))

\* a[j] raises IndexError outside [-len(a), len(a)).
getitem_raises_IndexError(a, j) == j < 0 - Len(a) \/ j >= Len(a)

\* a[j] for j in [-len(a), len(a)): a negative j counts from the end.
getitem(a, j) == IF j >= 0 THEN a[j + 1] ELSE a[Len(a) + j + 1]

\* Workshift(self._tb, idx[j], schedule)
Workshift_at(idx, j) ==
    IF getitem_raises_IndexError(idx, j)
    THEN [kind |-> "IndexError"]
    ELSE Workshift_init(getitem(idx, j))

----------------------------------------------------------------------------
(* Workshift.rollforward                                                   *)

\* Variant: 'alt' resolved like 'same'.
rollforward_idx_alt_as_same(duty) ==
    IF duty = "off" \/ (duty = "same" /\ is_off_duty(ws.loc))
                    \/ (duty = "alt" /\ is_off_duty(ws.loc))
    THEN off_duty_index
    ELSE IF duty = "any" THEN index
    ELSE on_duty_index

\* The array walked: on_duty_index unless the duty says otherwise.
rollforward_idx(duty) ==
    IF duty = "off" \/ (duty = "same" /\ is_off_duty(ws.loc))
                    \/ (duty = "alt" /\ is_on_duty(ws.loc))
    THEN off_duty_index
    ELSE IF duty = "any" THEN index
    ELSE on_duty_index

\* Variant: the missing zero step workshift is not checked.
rollforward_out_of_bounds_no_anchor_check(i, steps, len_idx) ==
    i + steps < 0 \/ i + steps >= len_idx

\* Variant: the lower end is not checked.
rollforward_out_of_bounds_no_lower_check(i, steps, len_idx) ==
    i = len_idx \/ i + steps >= len_idx

rollforward_out_of_bounds(i, steps, len_idx) ==
    i = len_idx \/ i + steps < 0 \/ i + steps >= len_idx

\* Variant: steps counted toward the past.
rollforward_target_backward(i, steps) == i - steps

rollforward_target(i, steps) == i + steps

rollforward(steps, duty) ==
    LET idx == rollforward_idx(duty)
        len_idx == Len(idx)
        i == searchsorted(idx, ws.loc)
    IN [op |-> "rollforward", start |-> ws.loc, steps |-> steps,
        duty |-> duty, idx |-> idx, i |-> i,
        ret |-> IF rollforward_out_of_bounds(i, steps, len_idx)
                THEN handle_out_of_bounds
                ELSE Workshift_at(idx, rollforward_target(i, steps))]

----------------------------------------------------------------------------
(* Workshift.rollback                                                      *)

rollback_idx(duty) ==
    IF duty = "off" \/ (duty = "same" /\ is_off_duty(ws.loc))
                    \/ (duty = "alt" /\ is_on_duty(ws.loc))
    THEN off_duty_index
    ELSE IF duty = "any" THEN index
    ELSE on_duty_index

RECURSIVE rollback_scan_exclusive(_, _, _)
\* Variant: the scan also skips an entry equal to self._loc.
rollback_scan_exclusive(idx, i, loc) ==
    IF i >= 0 /\ idx[i + 1] >= loc
    THEN rollback_scan_exclusive(idx, i - 1, loc)
    ELSE i

RECURSIVE rollback_scan_stops_at_zero(_, _, _)
\* Variant: the scan tests i > 0 and never goes below the first entry.
rollback_scan_stops_at_zero(idx, i, loc) ==
    IF i > 0 /\ idx[i + 1] > loc
    THEN rollback_scan_stops_at_zero(idx, i - 1, loc)
    ELSE i

RECURSIVE rollback_scan(_, _, _)
\* while i >= 0 and idx[i] > self._loc: i -= 1
rollback_scan(idx, i, loc) ==
    IF i >= 0 /\ idx[i + 1] > loc
    THEN rollback_scan(idx, i - 1, loc)
    ELSE i

rollback_out_of_bounds(i, steps, len_idx) ==
    i = -1 \/ i - steps < 0 \/ i - steps >= len_idx

\* Variant: steps counted toward the future.
rollback_target_forward(i, steps) == i + steps

rollback_target(i, steps) == i - steps

rollback(steps, duty) ==
    LET idx == rollback_idx(duty)
        len_idx == Len(idx)
        i == rollback_scan(idx, len_idx - 1, ws.loc)
    IN [op |-> "rollback", start |-> ws.loc, steps |-> steps,
        duty |-> duty, idx |-> idx, i |-> i,
        ret |-> IF rollback_out_of_bounds(i, steps, len_idx)
                THEN handle_out_of_bounds
                ELSE Workshift_at(idx, rollback_target(i, steps))]

----------------------------------------------------------------------------
(* The state machine                                                       *)

NoCall == [op |-> "none"]
NoWorkshift == [kind |-> "None"]

\* Integer locations a caller may try.
Locations == (0 - N - 1) .. (N + 1)

Init ==
    \E s \in ValidSchedules :
        /\ index = Ascending(0 .. s.n - 1, s.n)
        /\ on_duty_index = Ascending(s.on, s.n)
        /\ off_duty_index = Ascending((0 .. s.n - 1) \ s.on, s.n)
        /\ ws = NoWorkshift
        /\ call = NoCall

\* ws = Workshift(tb, location, schedule) with an integer location.
Construct ==
    \E location \in Locations :
        LET r == Workshift_init(location)
        IN /\ call' = [op |-> "init", location |-> location, ret |-> r]
           /\ ws' = IF r.kind = "Workshift" THEN r ELSE ws
           /\ UNCHANGED <<index, on_duty_index, off_duty_index>>

\* Workshift(tb, location, schedule) with a location that is not integer-like:
\* schedule.label raises TypeError, re-raised with a message.
ConstructNonInteger ==
    /\ call' = [op |-> "init_non_integer", ret |-> [kind |-> "TypeError"]]
    /\ UNCHANGED <<index, on_duty_index, off_duty_index, ws>>

Rollforward ==
    /\ ws.kind = "Workshift"
    /\ \E steps \in StepsRange, duty \in Duties :
           call' = rollforward(steps, duty)
    /\ UNCHANGED <<index, on_duty_index, off_duty_index, ws>>

Rollback ==
    /\ ws.kind = "Workshift"
    /\ \E steps \in StepsRange, duty \in Duties :
           call' = rollback(steps, duty)
    /\ UNCHANGED <<index, on_duty_index, off_duty_index, ws>>

Next == Construct \/ ConstructNonInteger \/ Rollforward \/ Rollback

Spec == Init /\ [][Next]_vars

----------------------------------------------------------------------------
(* Reference definitions used by the properties (stated, not computed as   *)
(* the code computes them).                                                *)

IsRoll == call.op \in {"rollforward", "rollback"}

Succeeded(r) == r.kind = "Workshift"

Returned(r, p) == r = [kind |-> "Workshift", loc |-> p]

FullRange == [j \in 1 .. N |-> j - 1]

\* The sequence a duty selects for a start position p.
indexFor(duty, p) ==
    CASE duty = "on" -> on_duty_index
      [] duty = "off" -> off_duty_index
      [] duty = "same" -> IF is_on_duty(p) THEN on_duty_index
                          ELSE off_duty_index
      [] duty = "alt" -> IF is_on_duty(p) THEN off_duty_index
                         ELSE on_duty_index
      [] duty = "any" -> FullRange

\* The smallest 0-based i with seq[i] >= p, or len(seq).
positionOfOrAfter(seq, p) ==
    IF \E j \in 1 .. Len(seq) : seq[j] >= p
    THEN (CHOOSE j \in 1 .. Len(seq) :
              seq[j] >= p /\ \A k \in 1 .. j - 1 : seq[k] < p) - 1
    ELSE Len(seq)

\* The largest 0-based i with seq[i] <= p, or -1.
positionOfOrBefore(seq, p) ==
    IF \E j \in 1 .. Len(seq) : seq[j] <= p
    THEN (CHOOSE j \in 1 .. Len(seq) :
              seq[j] <= p /\ \A k \in j + 1 .. Len(seq) : seq[k] > p) - 1
    ELSE -1

InRange(seq, t) == 0 <= t /\ t < Len(seq)

\* p belongs to the sequence its duty selects.
StartInSeq(duty, p) == p \in Members(indexFor(duty, p))

\* The schedule of the spec's first example.
IsExampleAlternating ==
    N = Cardinality(ExampleRange)
    /\ Members(on_duty_index) = ExampleAlternating

\* The schedule with on-duty 0..8 and off-duty 9.
IsExampleLastOff ==
    N = Cardinality(ExampleRange)
    /\ Members(on_duty_index) = ExampleLastOff

----------------------------------------------------------------------------
(* C1: sign symmetry                                                       *)

\* The call of the opposite direction with the opposite steps, from the same
\* workshift and with the same duty as the last call.
Mirror(steps) ==
    IF call.op = "rollforward" THEN rollback(steps, call.duty)
    ELSE rollforward(steps, call.duty)

\* C1 as stated: for every start position, duty and k, when rollforward with
\* steps=k and rollback with steps=-k both succeed they return the same
\* position.
C1_SignSymmetry_AsStated ==
    IsRoll =>
        LET other == Mirror(0 - call.steps).ret
        IN (Succeeded(call.ret) /\ Succeeded(other))
               => call.ret.loc = other.loc

\* C1 amended: sign symmetry holds when the start position belongs to the
\* sequence the duty selects (on-duty start with 'on', off-duty start with
\* 'off', any start with 'same' or 'any'): then rollforward with steps=k and
\* rollback with steps=-k, when both succeed, return the same position.
C1_SignSymmetry ==
    (IsRoll /\ StartInSeq(call.duty, call.start)) =>
        LET other == Mirror(0 - call.steps).ret
        IN (Succeeded(call.ret) /\ Succeeded(other))
               => call.ret.loc = other.loc

C1_Witness ==
    /\ call.op = "rollforward"
    /\ call.steps = -2
    /\ call.duty = "off"
    /\ StartInSeq(call.duty, call.start)
    /\ Succeeded(call.ret)
    /\ Succeeded(rollback(2, "off").ret)
    /\ call.ret.loc < call.start

----------------------------------------------------------------------------
(* C2: anchor inclusivity                                                  *)

\* C2: when the start position belongs to the sequence the duty selects,
\* rollforward and rollback with steps=0 both succeed and return the start
\* position itself.
C2_AnchorInclusivity ==
    /\ (IsRoll /\ call.steps = 0 /\ StartInSeq(call.duty, call.start))
           => Returned(call.ret, call.start)
    /\ Succeeded(ws) =>
           \A duty \in Duties :
               StartInSeq(duty, ws.loc) =>
                   /\ Returned(rollforward(0, duty).ret, ws.loc)
                   /\ Returned(rollback(0, duty).ret, ws.loc)

C2_Witness ==
    /\ call.op = "rollback"
    /\ call.steps = 0
    /\ call.duty = "same"
    /\ is_off_duty(call.start)
    /\ Returned(call.ret, call.start)
    /\ call.i > 0
    /\ call.i < Len(call.idx) - 1

----------------------------------------------------------------------------
(* C3: boundary failure                                                    *)

\* The zero step index and the target index of the last call, as the spec
\* defines them.
AnchorOfCall ==
    IF call.op = "rollforward"
    THEN positionOfOrAfter(indexFor(call.duty, call.start), call.start)
    ELSE positionOfOrBefore(indexFor(call.duty, call.start), call.start)

TargetOfCall ==
    IF call.op = "rollforward" THEN AnchorOfCall + call.steps
    ELSE AnchorOfCall - call.steps

\* C3: whenever the target index (anchor + steps forward, anchor - steps
\* backward) is < 0 or >= len(seq), the call returns what the container's
\* _handle_out_of_bounds hook returns, never a workshift of the sequence.
C3_BoundaryFailure ==
    (IsRoll /\ ~InRange(indexFor(call.duty, call.start), TargetOfCall))
        => (call.ret = handle_out_of_bounds /\ ~Succeeded(call.ret))

\* A negative target next to a non-empty sequence: a[-1] would be its last
\* entry.
C3_Witness ==
    /\ call.op = "rollforward"
    /\ Len(call.idx) >= 2
    /\ AnchorOfCall < Len(call.idx)
    /\ TargetOfCall = -1
    /\ call.ret = handle_out_of_bounds

----------------------------------------------------------------------------
(* C4: the result of rollforward                                           *)

\* C4: with seq the selected sequence and i the smallest index such that
\* seq[i] >= p, if i < len(seq) and 0 <= i + steps < len(seq) then
\* rollforward returns the position seq[i + steps]; on the alternating
\* schedule of length 10, from p = 3: steps=0,'on' gives 4; steps=1,'on'
\* gives 6; steps=0,'same' gives 3; steps=1,'alt' gives 6.
C4_RollforwardResult ==
    call.op = "rollforward" =>
        LET seq == indexFor(call.duty, call.start)
            i == positionOfOrAfter(seq, call.start)
        IN /\ (i < Len(seq) /\ InRange(seq, i + call.steps))
                  => Returned(call.ret, seq[i + call.steps + 1])
           /\ (IsExampleAlternating /\ call.start = 3) =>
                  /\ (call.steps = 0 /\ call.duty = "on")
                         => Returned(call.ret, 4)
                  /\ (call.steps = 1 /\ call.duty = "on")
                         => Returned(call.ret, 6)
                  /\ (call.steps = 0 /\ call.duty = "same")
                         => Returned(call.ret, 3)
                  /\ (call.steps = 1 /\ call.duty = "alt")
                         => Returned(call.ret, 6)

C4_Witness ==
    /\ IsExampleAlternating
    /\ call.op = "rollforward"
    /\ call.start = 3
    /\ call.steps = 1
    /\ call.duty = "alt"
    /\ Returned(call.ret, 6)

----------------------------------------------------------------------------
(* C5: the result of rollback                                              *)

\* C5: the descending scan of rollback ends with i the largest index such
\* that seq[i] <= p, or -1 if there is none; and whenever i >= 0 and
\* 0 <= i - steps < len(seq), rollback returns the position seq[i - steps].
C5_RollbackResult ==
    call.op = "rollback" =>
        LET seq == indexFor(call.duty, call.start)
            i == positionOfOrBefore(seq, call.start)
        IN /\ call.i = positionOfOrBefore(call.idx, call.start)
           /\ (i >= 0 /\ InRange(seq, i - call.steps))
                  => Returned(call.ret, seq[i - call.steps + 1])

C5_Witness ==
    /\ call.op = "rollback"
    /\ call.start \notin Members(call.idx)
    /\ call.i >= 1
    /\ call.i < Len(call.idx) - 1
    /\ call.steps = 1
    /\ Returned(call.ret, call.idx[call.i])

----------------------------------------------------------------------------
(* C6: mode resolution                                                     *)

\* C6: rollforward and rollback walk the sequence chosen from the duty and
\* the duty of the start position only ('on': on-duty, 'off': off-duty,
\* 'same': that of the start, 'alt': the other one, 'any': the full range
\* [0, N)), and both select the same sequence for the same start and duty.
C6_ModeResolution ==
    /\ IsRoll => call.idx = indexFor(call.duty, call.start)
    /\ Succeeded(ws) =>
           \A duty \in Duties :
               /\ rollforward(0, duty).idx = rollback(0, duty).idx
               /\ rollforward(0, duty).idx = indexFor(duty, ws.loc)

C6_Witness ==
    /\ call.op = "rollforward"
    /\ call.duty = "alt"
    /\ is_off_duty(call.start)
    /\ call.idx = on_duty_index
    /\ on_duty_index # off_duty_index
    /\ Len(on_duty_index) >= 2

----------------------------------------------------------------------------
(* C7: monotonic stepping                                                  *)

\* C7: for every start position and integer k (negative k included) such
\* that rollforward with steps=k and with steps=k+1, duty 'on', both succeed,
\* the position returned for k is strictly less than the one for k+1.
C7_MonotonicStepping ==
    (call.op = "rollforward" /\ call.duty = "on" /\ Succeeded(call.ret)) =>
        LET next == rollforward(call.steps + 1, "on").ret
        IN Succeeded(next) => call.ret.loc < next.loc

C7_Witness ==
    /\ call.op = "rollforward"
    /\ call.duty = "on"
    /\ call.steps = -2
    /\ Succeeded(call.ret)
    /\ Succeeded(rollforward(-1, "on").ret)
    /\ is_off_duty(call.start)

----------------------------------------------------------------------------
(* C8: construction bounds                                                 *)

----------------------------------------------------------------------------
(* C9: a missing anchor fails whatever the steps                           *)

AnchorMissing ==
    \/ call.op = "rollforward"
         /\ AnchorOfCall = Len(indexFor(call.duty, call.start))
    \/ call.op = "rollback" /\ AnchorOfCall = -1

\* C9: if the selected sequence has no entry at or after the start
\* (rollforward) or none at or before it (rollback), the call is out of
\* bounds for every steps, also when anchor + steps (anchor - steps) is a
\* valid index; with on-duty 0..8 and off-duty 9, rollforward from 9 with
\* steps=-1, 'on' is out of bounds and does not return 8.
C9_MissingAnchor ==
    /\ (IsRoll /\ AnchorMissing) => call.ret = handle_out_of_bounds
    /\ (IsExampleLastOff /\ call.op = "rollforward" /\ call.start = 9
            /\ call.steps = -1 /\ call.duty = "on")
           => (call.ret = handle_out_of_bounds /\ ~Returned(call.ret, 8))

C9_Witness ==
    /\ IsExampleLastOff
    /\ call.op = "rollforward"
    /\ call.start = 9
    /\ call.steps = -1
    /\ call.duty = "on"
    /\ AnchorMissing
    /\ InRange(call.idx, TargetOfCall)
    /\ call.ret = handle_out_of_bounds

----------------------------------------------------------------------------
(* C10: start outside the walked sequence                                  *)

\* The zero step workshifts of both directions, for a duty whose sequence
\* does not hold the workshift: after the workshift, before it, adjacent.
ZeroStepsAround ==
    Succeeded(ws) =>
        \A duty \in Duties :
            ~StartInSeq(duty, ws.loc) =>
                LET seq == indexFor(duty, ws.loc)
                    f == rollforward(0, duty).ret
                    b == rollback(0, duty).ret
                IN /\ Succeeded(f) => f.loc > ws.loc
                   /\ Succeeded(b) => b.loc < ws.loc
                   /\ (Succeeded(f) /\ Succeeded(b)) =>
                          \E j \in 1 .. Len(seq) - 1 :
                              seq[j] = b.loc /\ seq[j + 1] = f.loc

\* C10 as stated: when the start position does not belong to the selected
\* sequence, rollforward with steps=k equals rollback with steps=1-k
\* whenever both succeed; rollforward with steps=0 is after the start,
\* rollback with steps=0 before it, and the two are adjacent entries.
C10_OffByOne_AsStated ==
    /\ (call.op = "rollforward" /\ ~StartInSeq(call.duty, call.start)) =>
           LET other == rollback(1 - call.steps, call.duty).ret
           IN (Succeeded(call.ret) /\ Succeeded(other))
                  => call.ret.loc = other.loc
    /\ ZeroStepsAround

\* C10 amended: when the start position does not belong to the selected
\* sequence, rollforward with steps=k equals rollback with steps=-1-k
\* (so rollback with steps=s equals rollforward with steps=-1-s) whenever
\* both succeed; rollforward with steps=0 is after the start, rollback with
\* steps=0 before it, and the two are adjacent entries.
C10_OffByOne ==
    /\ (IsRoll /\ ~StartInSeq(call.duty, call.start)) =>
           LET other == Mirror(0 - 1 - call.steps).ret
           IN (Succeeded(call.ret) /\ Succeeded(other))
                  => call.ret.loc = other.loc
    /\ ZeroStepsAround

C10_Witness ==
    /\ call.op = "rollforward"
    /\ call.duty = "alt"
    /\ call.steps = 1
    /\ Succeeded(call.ret)
    /\ Succeeded(rollback(-2, "alt").ret)
    /\ Succeeded(rollback(0, "alt").ret)

====
